---- MODULE Spec2Model ----
(***************************************************************************)
(* go-bldbot: a fan-out/fan-in build orchestrator.  main() probes every    *)
(* configured slave, builds one Builder per live slave, runs Builder.run   *)
(* for each of them (one goroutine each, or one after the other) and       *)
(* reduces the BuildReports to the boolean allgood and the exit status.    *)
(*                                                                         *)
(* Two variants of the program are in the repository: the one that gives   *)
(* every run a fresh remote workspace and removes it afterwards            *)
(* (src/main.go, perRun = TRUE) and the one that builds under the          *)
(* configured root and never cleans up (src/unnamed/part_000,              *)
(* perRun = FALSE).                                                        *)
(***************************************************************************)
EXTENDS Integers, Sequences, FiniteSets, TLC

\* Number of slaves in the configuration file.
NSlaves == 2

\* Number of distinct names ioutil.TempDir can come up with.
NumTmpNames == 2

VARIABLES
    parallel,    \* *g_parallel
    perRun,      \* TRUE: src/main.go, FALSE: src/unnamed/part_000
    slaves,      \* the decoded configuration: a sequence of Slave
    mainpc,      \* where main() is
    idx,         \* index of the loop main() is in
    probe,       \* per slave: "unknown", "alive" or "dead"
    builders,    \* the slice of *Builder
    file,        \* per slave: its log file, "none", "open" or "closed"
    closes,      \* per slave: number of Close calls on its log file
    journal,     \* per slave: the progress lines that reached the log file
    lost,        \* per slave: the progress lines written to a sink not open
    pc,          \* per slave: where Builder.run is
    ops,         \* per slave: the commands Builder.run has issued, in order
    report,      \* per slave: the BuildReport run() returned, or NoReport
    received,    \* the reports main() has folded into allgood, in order
    allgood,     \* the fleet verdict
    announced,   \* the verdict printed by ">>> all good: ", or "none"
    exitStatus   \* the exit status of the process, or -1 while it runs

vars == <<parallel, perRun, slaves, mainpc, idx, probe, builders, file, closes,
          journal, lost, pc, ops, report, received, allgood, announced,
          exitStatus>>

Names == 1..NSlaves

----------------------------------------------------------------------------
\* Paths are sequences of components; filepath.Join appends.

Join(dir, name) == Append(dir, name)

\* Slave.LocalCommandFileName
LocalCommandFileName(s) == Join(<<ToString(s.Name)>>, "build.sh")

\* Slave.RemoteCommandFileName (Path is called Root in part_000)
RemoteCommandFileName(s) == Join(s.Path, "build.sh")

\* The remote directory the configuration file gives the i-th slave: the
\* directory part_000 builds in for one, another directory for the next.
ConfiguredPath(i) == IF i % 2 = 1 THEN <<"build">> ELSE <<"data">>

\* ioutil.TempDir("", "go-bldbot-"): os.TempDir() joined with the prefix
\* and a random suffix.
TempDir(n) == <<"tmp", "go-bldbot-" \o ToString(n)>>

\* The names TempDir can return to main(): every earlier directory was
\* removed again, so its name is free, as is any name not yet used.  The
\* names are random and only their equality matters: the unused names are
\* taken in order.
TmpChoices(bs) ==
    {t \in 1..NumTmpNames :
        t = 1 \/ \E k \in 1..Len(bs) : bs[k].slave.Path = TempDir(t - 1)}

\* The report of a run() that has not returned one.
NoReport == [slave |-> 0, msg |-> [text |-> "", file |-> <<>>], err |-> "unset"]
NoErr == "nil"
NoArg == <<>>

----------------------------------------------------------------------------
\* Builder.run: the stages, their commands and their reports.

Validate == "ValidateLocalScript"
Prepare  == "PrepareRemoteWorkspace"
Upload   == "UploadScript"
Execute  == "ExecuteRemoteBuild"
Retrieve == "RetrieveArtifacts"
Cleanup  == "CleanupRemoteWorkspace"

RemoteStages == {Prepare, Upload, Execute, Retrieve, Cleanup}
Stages == {Validate} \cup RemoteStages

\* The statement run() of main.go goes on with after a stage that returned
\* no error.
NextStagePerRun(stage) ==
    CASE stage = Validate -> Prepare
      [] stage = Prepare  -> Upload
      [] stage = Upload   -> Execute
      [] stage = Execute  -> Retrieve
      [] stage = Retrieve -> Cleanup
      [] stage = Cleanup  -> "returned"

\* The same for run() of part_000, which ends with the retrieval.
NextStageFixed(stage) ==
    CASE stage = Validate -> Prepare
      [] stage = Prepare  -> Upload
      [] stage = Upload   -> Execute
      [] stage = Execute  -> Retrieve
      [] stage = Retrieve -> "returned"

NextStage(stage, variant) ==
    IF variant THEN NextStagePerRun(stage) ELSE NextStageFixed(stage)

\* A run() that goes on after a failed stage.
AfterStageIgnoringErr(stage, ok, variant) == NextStage(stage, variant)

\* A run() that removes the workspace when a remote stage has failed.
AfterStageCleaningUp(stage, ok, variant) ==
    IF ok THEN NextStage(stage, variant)
    ELSE IF variant /\ stage \in {Prepare, Upload, Execute, Retrieve}
         THEN Cleanup ELSE "returned"

\* "if err != nil { return BuildReport{...} }" after every stage.
AfterStage(stage, ok, variant) ==
    IF ok THEN NextStage(stage, variant) ELSE "returned"

\* A run() that names the failed directory creation for what it is.
MessageNamingMkdir(stage, fname) ==
    CASE stage = Validate -> [text |-> "no such file", file |-> fname]
      [] stage = Prepare  -> [text |-> "failed to create workspace", file |-> <<>>]
      [] stage = Upload   -> [text |-> "failed to copy", file |-> fname]
      [] stage = Execute  -> [text |-> "build failed", file |-> <<>>]
      [] stage = Retrieve -> [text |-> "failed to retrieve outputs", file |-> <<>>]
      [] stage = Cleanup  -> [text |-> "clean-up failed", file |-> <<>>]

\* The msg field of the report a failing stage returns.
Message(stage, fname) ==
    CASE stage = Validate -> [text |-> "no such file", file |-> fname]
      [] stage = Prepare  -> [text |-> "failed to copy", file |-> fname]
      [] stage = Upload   -> [text |-> "failed to copy", file |-> fname]
      [] stage = Execute  -> [text |-> "build failed", file |-> <<>>]
      [] stage = Retrieve -> [text |-> "failed to retrieve outputs", file |-> <<>>]
      [] stage = Cleanup  -> [text |-> "clean-up failed", file |-> <<>>]

OkMessage == [text |-> "ok", file |-> <<>>]

\* The error a stage's operation returned is named after the stage.
ErrOf(stage, ok) == IF ok THEN NoErr ELSE stage

\* A run() that does not hold a failed clean-up against the build.
StageReportForgivingCleanup(s, stage, ok) ==
    IF ok \/ stage = "CleanupRemoteWorkspace"
    THEN [slave |-> s.Name, msg |-> OkMessage, err |-> NoErr]
    ELSE [slave |-> s.Name,
          msg   |-> Message(stage, LocalCommandFileName(s)),
          err   |-> ErrOf(stage, ok)]

\* The BuildReport run() returns when it stops after this stage.
StageReport(s, stage, ok) ==
    IF ok
    THEN [slave |-> s.Name, msg |-> OkMessage, err |-> NoErr]
    ELSE [slave |-> s.Name,
          msg   |-> Message(stage, LocalCommandFileName(s)),
          err   |-> ErrOf(stage, ok)]

\* The command a stage of main.go's run() runs: os.Open or exec.Command.
CommandPerRun(stage, s) ==
    CASE stage = Validate ->
           [op |-> "open", host |-> 0,
            target |-> LocalCommandFileName(s), arg |-> NoArg]
      [] stage = Prepare ->
           [op |-> "mkdir -p", host |-> s.Addr, target |-> s.Path, arg |-> NoArg]
      [] stage = Upload ->
           [op |-> "scp to", host |-> s.Addr,
            target |-> RemoteCommandFileName(s),
            arg |-> LocalCommandFileName(s)]
      [] stage = Execute ->
           [op |-> "time", host |-> s.Addr,
            target |-> RemoteCommandFileName(s), arg |-> s.Path]
      [] stage = Retrieve ->
           [op |-> "scp from", host |-> s.Addr,
            target |-> Join(s.Path, "output"), arg |-> <<"output">>]
      [] stage = Cleanup ->
           [op |-> "rm -rf", host |-> s.Addr, target |-> s.Path, arg |-> NoArg]

\* The same for part_000, whose build and retrieval name /build whatever the
\* slave's Root is.  (Its run() calls the script names CommandFileName, a
\* method neither Slave nor Builder has: they are taken to be the local name
\* where the file is opened and the remote name where it is copied to.)
CommandFixed(stage, s) ==
    CASE stage = Validate ->
           [op |-> "open", host |-> 0,
            target |-> LocalCommandFileName(s), arg |-> NoArg]
      [] stage = Prepare ->
           [op |-> "mkdir -p", host |-> s.Addr, target |-> s.Path, arg |-> NoArg]
      [] stage = Upload ->
           [op |-> "scp to", host |-> s.Addr,
            target |-> RemoteCommandFileName(s),
            arg |-> LocalCommandFileName(s)]
      [] stage = Execute ->
           [op |-> "time", host |-> s.Addr,
            target |-> <<"build", "build.sh">>, arg |-> NoArg]
      [] stage = Retrieve ->
           [op |-> "scp from", host |-> s.Addr,
            target |-> <<"build", "output">>, arg |-> <<"output">>]

Command(stage, s, variant) ==
    IF variant THEN CommandPerRun(stage, s) ELSE CommandFixed(stage, s)

\* The progress line a stage prints to b.w before its command ("" if none).
ProgressLine(stage) ==
    CASE stage = Validate -> "start"
      [] stage = Prepare  -> ""
      [] stage = Upload   -> "copying build-script"
      [] stage = Execute  -> "running build-script"
      [] stage = Retrieve -> "retrieving output(s)"
      [] stage = Cleanup  -> "cleaning up"

\* The stage after whose command run() calls b.w.Sync(); b.w.Close().
ClosesSink(stage) == stage = Retrieve

\* The builder main() made for the slave of that name.
BuilderOf(n) ==
    builders[CHOOSE k \in 1..Len(builders) : builders[k].slave.Name = n]

Dispatched == {builders[k].slave.Name : k \in 1..Len(builders)}

Running(n) == ops[n] # <<>> /\ ops[n][Len(ops[n])].res = "running"

\* The command run() is in never returns.
IsHung(n) == ops[n] # <<>> /\ ops[n][Len(ops[n])].res = "hung"

\* (*os.File).Write succeeds only on an open file; on a nil or a closed
\* file it returns an error.
Writable(n, f) == BuilderOf(n).w = "file" /\ f = "open"

\* fmt.Fprintf(b.w, line): the journal after the line is printed to a log
\* file in state f.
Fprintf(n, f, jr, line) ==
    IF line # "" /\ Writable(n, f) THEN Append(jr, line) ELSE jr

\* The lines that did not reach the log file, after that same Fprintf.
FprintfLost(n, f, ls, line) ==
    IF line # "" /\ ~Writable(n, f) THEN Append(ls, line) ELSE ls

\* b.w.Close(): the state of a log file in state f after the call; a nil
\* b.w has no file to close.
Close(n, f) == IF BuilderOf(n).w = "file" THEN "closed" ELSE f

\* run() from the return of a stage's operation to its next blocking call:
\* the error check, then either the return of the report or the progress
\* line and the start of the next stage's command.  f, jr, ls and tr are the
\* log file's state, the journal, the lost lines and the trace at the return
\* of the operation.
Proceed(n, stage, ok, f, jr, ls, tr) ==
    LET b == BuilderOf(n)
        next == AfterStage(stage, ok, perRun)
    IN IF next \in RemoteStages
       THEN /\ journal' = [journal EXCEPT ![n] =
                              Fprintf(n, f, jr, ProgressLine(next))]
            /\ lost' = [lost EXCEPT ![n] =
                           FprintfLost(n, f, ls, ProgressLine(next))]
            /\ ops' = [ops EXCEPT ![n] = Append(tr,
                          [stage |-> next,
                           cmd |-> Command(next, b.slave, perRun),
                           res |-> "running"])]
            /\ pc' = [pc EXCEPT ![n] = next]
            /\ UNCHANGED report
       ELSE /\ journal' = [journal EXCEPT ![n] = jr]
            /\ lost' = [lost EXCEPT ![n] = ls]
            /\ ops' = [ops EXCEPT ![n] = tr]
            /\ pc' = [pc EXCEPT ![n] = "returned"]
            /\ report' = [report EXCEPT ![n] = StageReport(b.slave, stage, ok)]

\* run() up to its first remote command: the start line, os.Open(fname),
\* and on success the start of "mkdir -p".
ValidateLocalScript(n) ==
    /\ pc[n] = Validate
    /\ \E ok \in BOOLEAN :
         LET b == BuilderOf(n)
             line == ProgressLine(Validate)
         IN Proceed(n, Validate, ok, file[n],
                    Fprintf(n, file[n], journal[n], line),
                    FprintfLost(n, file[n], lost[n], line),
                    Append(ops[n],
                       [stage |-> Validate,
                        cmd |-> Command(Validate, b.slave, perRun),
                        res |-> IF ok THEN "ok" ELSE "failed"]))
    /\ UNCHANGED <<parallel, perRun, slaves, mainpc, idx, probe, builders,
                   file, closes, received, allgood, announced, exitStatus>>

\* run() from the return of a remote command (ssh.Run()) on: the log file
\* is closed if this was the retrieval, then run() proceeds.
EndStage(n) ==
    /\ pc[n] \in RemoteStages
    /\ Running(n)
    /\ \E ok \in BOOLEAN :
         LET f == IF ClosesSink(pc[n]) THEN Close(n, file[n]) ELSE file[n]
         IN /\ file' = [file EXCEPT ![n] = f]
            /\ closes' = [closes EXCEPT ![n] =
                  IF ClosesSink(pc[n]) /\ BuilderOf(n).w = "file"
                  THEN @ + 1 ELSE @]
            /\ Proceed(n, pc[n], ok, f, journal[n], lost[n],
                       [ops[n] EXCEPT ![Len(ops[n])].res =
                           IF ok THEN "ok" ELSE "failed"])
    /\ UNCHANGED <<parallel, perRun, slaves, mainpc, idx, probe, builders,
                   received, allgood, announced, exitStatus>>

\* ssh.Run() of the command run() is in blocks for good: neither exec.Command
\* nor ssh has a timeout.  At most one command of the whole run hangs.
Hang(n) ==
    /\ pc[n] \in RemoteStages
    /\ Running(n)
    /\ \A m \in Names : ~IsHung(m)
    /\ ops' = [ops EXCEPT ![n][Len(ops[n])].res = "hung"]
    /\ UNCHANGED <<parallel, perRun, slaves, mainpc, idx, probe, builders, file,
                   closes, journal, lost, pc, report, received, allgood,
                   announced, exitStatus>>

----------------------------------------------------------------------------
\* main()

\* A main() that does not look at the error of the probe.
RespondsUnchecked(alive) == TRUE

\* "if err != nil { ...; continue }" after slave.Ping(): a builder is made
\* for the slave only if the probe returned no error.
Responds(alive) == alive

\* A main() whose verdict is that of the report it saw last.
AggregateLast(verdict, rep) == rep.err = NoErr

\* A main() that flips the verdict on every failing report.
AggregateFlipping(verdict, rep) == IF rep.err # NoErr THEN ~verdict ELSE verdict

\* "if report.err != nil { allgood = false }"
Aggregate(verdict, rep) == IF rep.err # NoErr THEN FALSE ELSE verdict

\* "if !allgood { os.Exit(1) }", else main returns.
ExitCode(verdict) == IF ~verdict THEN 1 ELSE 0

\* A main() that stops receiving one report early.
ExpectedOneLess(bs) == Len(bs) - 1

\* A main() that waits for a report of every configured slave.
ExpectedOfAll(bs) == Len(slaves)

\* "for _ = range builders { report := <-done ... }": the number of receives.
Expected(bs) == Len(bs)

\* A sequential loop that a failed build ends ("break" for "continue").
SeqNextBreaking(i, rep) == IF rep.err # NoErr THEN Len(builders) + 1 ELSE i + 1

\* The index the sequential loop goes on with after a run() has returned.
SeqNext(i, rep) == i + 1

Init ==
    /\ parallel \in BOOLEAN
    /\ perRun \in BOOLEAN
    /\ slaves = [n \in Names |->
                    [Addr |-> n, Name |-> n, Path |-> ConfiguredPath(n)]]
    /\ mainpc = "discover"
    /\ idx = 1
    /\ probe = [n \in Names |-> "unknown"]
    /\ builders = <<>>
    /\ file = [n \in Names |-> "none"]
    /\ closes = [n \in Names |-> 0]
    /\ journal = [n \in Names |-> <<>>]
    /\ lost = [n \in Names |-> <<>>]
    /\ pc = [n \in Names |-> "idle"]
    /\ ops = [n \in Names |-> <<>>]
    /\ report = [n \in Names |-> NoReport]
    /\ received = <<>>
    /\ allgood = TRUE
    /\ announced = "none"
    /\ exitStatus = -1

\* One iteration of "for _, slave := range slaves": the probe, the logs
\* directory, the log file, the workspace name, the builder.
Discover ==
    /\ mainpc = "discover"
    /\ idx <= Len(slaves)
    /\ \E alive, mkdirOk, createOk, tmpOk \in BOOLEAN, t \in TmpChoices(builders) :
         LET slave == slaves[idx]
             n == slave.Name
         IN /\ probe' = [probe EXCEPT ![n] = IF alive THEN "alive" ELSE "dead"]
            /\ IF ~Responds(alive)
               THEN /\ idx' = idx + 1
                    /\ UNCHANGED <<mainpc, builders, file, exitStatus>>
               ELSE IF ~mkdirOk \/ (perRun /\ ~tmpOk)
               THEN /\ file' = [file EXCEPT ![n] =
                          IF mkdirOk /\ createOk THEN "open" ELSE @]
                    /\ mainpc' = "panic"
                    /\ exitStatus' = 2
                    /\ UNCHANGED <<idx, builders>>
               ELSE /\ file' = [file EXCEPT ![n] =
                          IF createOk THEN "open" ELSE @]
                    /\ builders' = Append(builders,
                          [slave |-> IF perRun
                                     THEN [slave EXCEPT !.Path = TempDir(t)]
                                     ELSE slave,
                           w |-> IF createOk THEN "file" ELSE "nil"])
                    /\ idx' = idx + 1
                    /\ UNCHANGED <<mainpc, exitStatus>>
    /\ UNCHANGED <<parallel, perRun, slaves, closes, journal, lost, pc, ops,
                   report, received, allgood, announced>>

\* A main() that starts the builders once the first slave is dealt with.
StartLaunchEarly ==
    /\ mainpc = "discover"
    /\ idx > 1
    /\ mainpc' = "launch"
    /\ idx' = 1
    /\ allgood' = TRUE
    /\ UNCHANGED <<parallel, perRun, slaves, probe, builders, file, closes,
                   journal, lost, pc, ops, report, received, announced,
                   exitStatus>>

\* The roster is printed, the channel made and allgood set.
StartLaunch ==
    /\ mainpc = "discover"
    /\ idx > Len(slaves)
    /\ mainpc' = "launch"
    /\ idx' = 1
    /\ allgood' = TRUE
    /\ UNCHANGED <<parallel, perRun, slaves, probe, builders, file, closes,
                   journal, lost, pc, ops, report, received, announced,
                   exitStatus>>

\* "go func(builder *Builder) { done <- builder.run() }(builder)"
LaunchParallel ==
    /\ mainpc = "launch"
    /\ parallel
    /\ idx <= Len(builders)
    /\ pc' = [pc EXCEPT ![builders[idx].slave.Name] = Validate]
    /\ idx' = idx + 1
    /\ UNCHANGED <<parallel, perRun, slaves, mainpc, probe, builders, file,
                   closes, journal, lost, ops, report, received, allgood,
                   announced, exitStatus>>

\* A sequential loop that starts run() and goes on without waiting for it.
CallRunNotWaiting ==
    /\ mainpc = "launch"
    /\ ~parallel
    /\ idx <= Len(builders)
    /\ pc' = [pc EXCEPT ![builders[idx].slave.Name] = Validate]
    /\ idx' = idx + 1
    /\ UNCHANGED <<parallel, perRun, slaves, mainpc, probe, builders, file,
                   closes, journal, lost, ops, report, received, allgood,
                   announced, exitStatus>>

\* "resp := builder.run()": main() is in run() until it returns.
CallRun ==
    /\ mainpc = "launch"
    /\ ~parallel
    /\ idx <= Len(builders)
    /\ pc' = [pc EXCEPT ![builders[idx].slave.Name] = Validate]
    /\ mainpc' = "in run"
    /\ UNCHANGED <<parallel, perRun, slaves, idx, probe, builders, file,
                   closes, journal, lost, ops, report, received, allgood,
                   announced, exitStatus>>

\* run() has returned to the sequential loop: resp is folded into allgood.
ReturnRun ==
    /\ mainpc = "in run"
    /\ LET n == builders[idx].slave.Name
       IN /\ pc[n] = "returned"
          /\ pc' = [pc EXCEPT ![n] = "done"]
          /\ received' = Append(received, report[n])
          /\ allgood' = Aggregate(allgood, report[n])
          /\ idx' = SeqNext(idx, report[n])
    /\ mainpc' = "launch"
    /\ UNCHANGED <<parallel, perRun, slaves, probe, builders, file, closes,
                   journal, lost, ops, report, announced, exitStatus>>

\* All tasks are launched: main() goes on to the receive loop.
StartCollect ==
    /\ mainpc = "launch"
    /\ parallel
    /\ idx > Len(builders)
    /\ mainpc' = "collect"
    /\ idx' = 1
    /\ UNCHANGED <<parallel, perRun, slaves, probe, builders, file, closes,
                   journal, lost, pc, ops, report, received, allgood,
                   announced, exitStatus>>

\* A main() that takes the reports in the order of the builders.
ReceiveInOrder(n) ==
    /\ mainpc = "collect"
    /\ idx <= Expected(builders)
    /\ n = builders[idx].slave.Name
    /\ pc[n] = "returned"
    /\ pc' = [pc EXCEPT ![n] = "done"]
    /\ received' = Append(received, report[n])
    /\ allgood' = Aggregate(allgood, report[n])
    /\ idx' = idx + 1
    /\ UNCHANGED <<parallel, perRun, slaves, mainpc, probe, builders, file,
                   closes, journal, lost, ops, report, announced, exitStatus>>

\* "report := <-done" meets "done <- builder.run()" of one task: the
\* channel is unbuffered, sender and receiver step together.
Receive(n) ==
    /\ mainpc = "collect"
    /\ idx <= Expected(builders)
    /\ pc[n] = "returned"
    /\ pc' = [pc EXCEPT ![n] = "done"]
    /\ received' = Append(received, report[n])
    /\ allgood' = Aggregate(allgood, report[n])
    /\ idx' = idx + 1
    /\ UNCHANGED <<parallel, perRun, slaves, mainpc, probe, builders, file,
                   closes, journal, lost, ops, report, announced, exitStatus>>

\* The verb %v of a bool.
Sprint(b) == IF b THEN "true" ELSE "false"

\* ">>> all good: %v", then os.Exit(1) or the return from main().
Announce ==
    /\ \/ mainpc = "launch" /\ ~parallel /\ idx > Len(builders)
       \/ mainpc = "collect" /\ idx > Expected(builders)
    /\ announced' = Sprint(allgood)
    /\ exitStatus' = ExitCode(allgood)
    /\ mainpc' = "exit"
    /\ UNCHANGED <<parallel, perRun, slaves, idx, probe, builders, file,
                   closes, journal, lost, pc, ops, report, received, allgood>>

Run(n) == ValidateLocalScript(n) \/ EndStage(n)

Next ==
    \/ Discover
    \/ StartLaunch
    \/ LaunchParallel
    \/ CallRun
    \/ ReturnRun
    \/ StartCollect
    \/ Announce
    \/ \E n \in Names : ValidateLocalScript(n)
    \/ \E n \in Names : EndStage(n)
    \/ \E n \in Names : Receive(n)

Spec == Init /\ [][Next]_vars

\* Every remote operation returns and the scheduler is fair: no step that
\* stays possible is put off forever.
FairSpec ==
    /\ Spec
    /\ WF_vars(Discover \/ StartLaunch \/ LaunchParallel \/ CallRun
               \/ ReturnRun \/ StartCollect \/ Announce)
    /\ \A n \in Names : WF_vars(Run(n))
    /\ \A n \in Names : WF_vars(Receive(n))

\* The program where one remote command may hang: every other command
\* returns and the scheduler is fair.
NextHung == Next \/ \E n \in Names : Hang(n)

HungSpec ==
    /\ Init /\ [][NextHung]_vars
    /\ WF_vars(Discover \/ StartLaunch \/ LaunchParallel \/ CallRun
               \/ ReturnRun \/ StartCollect \/ Announce)
    /\ \A n \in Names : WF_vars(Run(n))
    /\ \A n \in Names : WF_vars(Receive(n))

TypeOK ==
    /\ mainpc \in {"discover", "launch", "in run", "collect", "exit", "panic"}
    /\ \A n \in Names : pc[n] \in Stages \cup {"idle", "returned", "done"}
    /\ exitStatus \in {-1, 0, 1, 2}

----------------------------------------------------------------------------
\* Properties

Terminal(n) == pc[n] \in {"returned", "done"}

Succeeded(rep) == rep.err = NoErr

Failed(n) == \E i \in 1..Len(ops[n]) : ops[n][i].res = "failed"

\* The stages a run() of this variant goes through when nothing fails.
FullRun == IF perRun
           THEN <<Validate, Prepare, Upload, Execute, Retrieve, Cleanup>>
           ELSE <<Validate, Prepare, Upload, Execute, Retrieve>>

\* C1: when main() finishes, in either mode and whatever the order the
\* reports came in, allgood is the conjunction of "no error" over the reports
\* of the dispatched builders, it is the verdict printed, and the exit status
\* is 1 if it is false and 0 if it is true.
C1_VerdictIsConjunction ==
    mainpc = "exit" =>
        /\ allgood = (\A n \in Dispatched : Succeeded(report[n]))
        /\ allgood = (\A i \in 1..Len(received) : Succeeded(received[i]))
        /\ announced = Sprint(allgood)
        /\ exitStatus = IF allgood THEN 0 ELSE 1

\* C1 witness: a concurrent run has finished in which the report of the
\* second builder came in first and carried an error, the report of the first
\* came in last and carried none, and the process exited with 1.
C1_Witness ==
    /\ mainpc = "exit"
    /\ parallel
    /\ Len(received) = 2
    /\ received[1].slave = builders[2].slave.Name
    /\ ~Succeeded(received[1])
    /\ received[2].slave = builders[1].slave.Name
    /\ Succeeded(received[2])
    /\ exitStatus = 1

\* C2: a slave whose probe failed has no builder, no stage of run() is ever
\* executed against it, it has no report and no log file, no report of it is
\* received, and the final verdict is the conjunction over the reports of the
\* slaves that did respond.
C2_DeadSlaveIsAbsent ==
    /\ \A n \in Names :
          probe[n] = "dead" =>
             /\ n \notin Dispatched
             /\ pc[n] = "idle"
             /\ ops[n] = <<>>
             /\ report[n] = NoReport
             /\ file[n] = "none"
             /\ \A i \in 1..Len(received) : received[i].slave # n
    /\ mainpc = "exit" =>
          allgood = (\A n \in Names : probe[n] = "alive" => Succeeded(report[n]))

\* C2 witness: the run has finished with verdict true and status 0, one
\* slave did not respond, the other was built.
C2_Witness ==
    /\ mainpc = "exit"
    /\ \E n \in Names : probe[n] = "dead"
    /\ \E n \in Names : probe[n] = "alive" /\ pc[n] = "done"
    /\ allgood
    /\ exitStatus = 0

\* C3: a stage is executed at most once in a run(), and once a stage of a
\* run() has failed nothing more is ever executed by that run(): a missing
\* local script is followed by no remote operation, a failed build by no
\* retrieval.
C3_FailFast ==
    /\ [](\A n \in Names : \A i, j \in 1..Len(ops[n]) :
             ops[n][i].stage = ops[n][j].stage => i = j)
    /\ [][\A n \in Names : Failed(n) => ops'[n] = ops[n]]_vars

\* C3 witness: a run() has returned whose build failed after a good upload,
\* and the build is the last thing it executed.
C3_Witness ==
    \E n \in Names :
        /\ Terminal(n)
        /\ Len(ops[n]) = 4
        /\ ops[n][3].stage = Upload /\ ops[n][3].res = "ok"
        /\ ops[n][4].stage = Execute /\ ops[n][4].res = "failed"

\* C4: whenever a run() has returned its report, on whichever path, its log
\* file has been closed, by exactly one call of Close.
C4_SinkClosedOnce ==
    \A n \in Names : Terminal(n) => (closes[n] = 1 /\ file[n] = "closed")

\* C5: when a concurrent main() announces the verdict it has received as
\* many reports as it launched tasks, one for each builder: the report that
\* builder's run() returned, and no report twice.
C5_OneReportPerTask ==
    (parallel /\ announced # "none") =>
        /\ Len(received) = Len(builders)
        /\ Len(received) = Cardinality({n \in Names : pc[n] # "idle"})
        /\ \A i \in 1..Len(received) :
              /\ received[i].slave \in Dispatched
              /\ received[i] = report[received[i].slave]
        /\ \A n \in Dispatched :
              Cardinality({i \in 1..Len(received) : received[i].slave = n}) = 1

\* C5 witness: a concurrent main() has announced the verdict after two tasks.
C5_Witness ==
    /\ parallel
    /\ announced # "none"
    /\ Len(builders) = 2
    /\ Len(received) = 2

\* C6: if every remote operation returns and the scheduling is fair, the
\* run ends, in either mode and however many slaves responded: unless a fatal
\* local set-up error has ended it during discovery, before any run() was
\* started, main() gets to announce the verdict and exit, with every run()
\* returned and every report handed over.
C6_Terminates ==
    /\ [](mainpc = "panic" => \A n \in Names : pc[n] = "idle")
    /\ <>(\/ mainpc = "panic"
          \/ /\ mainpc = "exit"
             /\ announced # "none"
             /\ \A n \in Dispatched : pc[n] = "done")

\* C6 witness: a concurrent main() has exited after the runs of two
\* builders, the first of which had to wait with its report for the other's.
C6_Witness ==
    /\ mainpc = "exit"
    /\ parallel
    /\ Len(builders) = 2
    /\ received[1].slave = builders[2].slave.Name
    /\ \A n \in Dispatched : pc[n] = "done"

\* C7: a run() that has started and not yet returned can always take its
\* next step, whatever the other runs have come to; and when main() exits,
\* in either mode, every builder's run() was started and went on to its own
\* end: to the stage that failed, or through all the stages.
C7_SiblingsRunToTheEnd ==
    /\ \A n \in Names : pc[n] \in Stages => ENABLED Run(n)
    /\ mainpc = "exit" =>
          \A n \in Dispatched :
             /\ pc[n] = "done"
             /\ report[n] # NoReport
             /\ \/ ops[n][Len(ops[n])].res = "failed"
                \/ /\ Len(ops[n]) = Len(FullRun)
                   /\ \A i \in 1..Len(ops[n]) : ops[n][i].res = "ok"

\* C7 witness: a sequential main() has exited; the first builder failed at
\* its first stage, the second went through all the stages.
C7_Witness ==
    /\ mainpc = "exit"
    /\ ~parallel
    /\ Len(builders) = 2
    /\ ~Succeeded(report[builders[1].slave.Name])
    /\ Len(ops[builders[1].slave.Name]) = 1
    /\ Succeeded(report[builders[2].slave.Name])
    /\ Len(ops[builders[2].slave.Name]) = Len(FullRun)

\* The remote operation that comes i-th in a run().
OpAt(i) ==
    CASE i = 1 -> "open"
      [] i = 2 -> "mkdir -p"
      [] i = 3 -> "scp to"
      [] i = 4 -> "time"
      [] i = 5 -> "scp from"
      [] i = 6 -> "rm -rf"

\* C8: the operations of a run() are, in this order and each at most once,
\* each after the earlier ones succeeded and never two at a time: create the
\* directory, upload the script, execute the script with the workspace path
\* as its argument, download the outputs and, in the workspace-per-run
\* variant, remove the directory; a run() that succeeded has done them all.
C8_RemoteOpsInOrder ==
    \A n \in Names :
        /\ Len(ops[n]) <= Len(FullRun)
        /\ \A i \in 1..Len(ops[n]) :
              /\ ops[n][i].stage = FullRun[i]
              /\ ops[n][i].cmd.op = OpAt(i)
              /\ i < Len(ops[n]) => ops[n][i].res = "ok"
              /\ ops[n][i].stage = Execute =>
                    ops[n][i].cmd.arg = BuilderOf(n).slave.Path
        /\ (Terminal(n) /\ Succeeded(report[n])) =>
              /\ Len(ops[n]) = Len(FullRun)
              /\ \A i \in 1..Len(ops[n]) : ops[n][i].res = "ok"

\* C9: a run() has a report exactly when it has returned, it is received at
\* most once, and in it the error is present iff a stage of that run()
\* failed, and the message is "ok" iff the error is absent iff every stage
\* of the run() was executed and succeeded.
C9_ErrorIffStageFailed ==
    \A n \in Names :
        /\ ~Terminal(n) => report[n] = NoReport
        /\ Cardinality({i \in 1..Len(received) : received[i].slave = n}) <= 1
        /\ Terminal(n) =>
              /\ report[n] # NoReport
              /\ report[n].slave = n
              /\ ~Succeeded(report[n]) <=> Failed(n)
              /\ report[n].msg.text = "ok" <=> Succeeded(report[n])
              /\ Succeeded(report[n]) <=>
                    /\ Len(ops[n]) = Len(FullRun)
                    /\ \A i \in 1..Len(ops[n]) :
                          ops[n][i].stage = FullRun[i] /\ ops[n][i].res = "ok"

\* C9 witness: of two runs that have returned, one reports "ok" and no
\* error, the other an error.
C9_Witness ==
    \E n, m \in Names :
        /\ Terminal(n) /\ Terminal(m)
        /\ report[n].msg.text = "ok" /\ Succeeded(report[n])
        /\ ~Succeeded(report[m]) /\ Failed(m)

\* C10: the report of a run() that failed carries the error of the stage
\* that failed first and the message of that stage: "no such file [fname]",
\* "failed to copy [fname]" for the directory and for the upload, "build
\* failed", "failed to retrieve outputs", "clean-up failed"; and a failed
\* clean-up after a good build and a good retrieval makes the verdict false.
C10_ReportOfFirstFailure ==
    \A n \in Names :
        (Terminal(n) /\ Failed(n)) =>
            LET first == CHOOSE i \in 1..Len(ops[n]) :
                            /\ ops[n][i].res = "failed"
                            /\ \A j \in 1..(i - 1) : ops[n][j].res # "failed"
                stage == ops[n][first].stage
                fname == <<ToString(n), "build.sh">>
            IN /\ report[n].err = stage
               /\ report[n].msg =
                     CASE stage = "ValidateLocalScript" ->
                            [text |-> "no such file", file |-> fname]
                       [] stage = "PrepareRemoteWorkspace" ->
                            [text |-> "failed to copy", file |-> fname]
                       [] stage = "UploadScript" ->
                            [text |-> "failed to copy", file |-> fname]
                       [] stage = "ExecuteRemoteBuild" ->
                            [text |-> "build failed", file |-> <<>>]
                       [] stage = "RetrieveArtifacts" ->
                            [text |-> "failed to retrieve outputs", file |-> <<>>]
                       [] stage = "CleanupRemoteWorkspace" ->
                            [text |-> "clean-up failed", file |-> <<>>]
               /\ (stage = "CleanupRemoteWorkspace" /\ mainpc = "exit") =>
                     /\ ops[n][4].res = "ok"
                     /\ ops[n][5].res = "ok"
                     /\ ~allgood
                     /\ exitStatus = 1

\* C10 witness: main() has exited with 1 and the only error is that of a
\* clean-up, after a build and a retrieval that succeeded.
C10_Witness ==
    /\ mainpc = "exit"
    /\ exitStatus = 1
    /\ \E n \in Dispatched :
          /\ report[n].msg.text = "clean-up failed"
          /\ ops[n][4].res = "ok"
          /\ ops[n][5].res = "ok"
          /\ \A m \in Dispatched \ {n} : Succeeded(report[m])

\* C11: in sequential mode the runs go one at a time in the order of the
\* configuration: when a builder's run() has started, the run() of every
\* builder before it has returned and its report is folded into allgood,
\* and no builder after it has started.
C11_SequentialInOrder ==
    ~parallel =>
        /\ \A j, k \in 1..Len(builders) :
              j < k => builders[j].slave.Name < builders[k].slave.Name
        /\ \A k \in 1..Len(builders) :
              pc[builders[k].slave.Name] # "idle" =>
                 /\ \A j \in 1..(k - 1) :
                       /\ pc[builders[j].slave.Name] = "done"
                       /\ received[j] = report[builders[j].slave.Name]
                 /\ Len(received) >= k - 1
                 /\ allgood = (\A j \in 1..(k - 1) :
                                  Succeeded(report[builders[j].slave.Name]))
                       \/ pc[builders[k].slave.Name] = "done"
        /\ allgood = (\A i \in 1..Len(received) : Succeeded(received[i]))

\* C11 witness: in sequential mode the second builder is in its first
\* remote command, the first has failed and the verdict is already false.
C11_Witness ==
    /\ ~parallel
    /\ Len(builders) = 2
    /\ pc[builders[2].slave.Name] = Prepare
    /\ pc[builders[1].slave.Name] = "done"
    /\ ~Succeeded(report[builders[1].slave.Name])
    /\ ~allgood

\* C12: allgood is true until main() folds a report into it; it changes
\* only in a step in which main() takes a report (from run() in sequential
\* mode, from the channel in concurrent mode), never in a step of a run();
\* and once false it stays false.
C12_VerdictOwnedByMain ==
    /\ [](received = <<>> => allgood)
    /\ [][allgood' # allgood =>
             /\ mainpc \in {"in run", "collect"}
             /\ Len(received') = Len(received) + 1]_vars
    /\ [][(\E n \in Names : ops'[n] # ops[n]) => allgood' = allgood]_vars
    /\ [][~allgood => ~allgood']_vars

\* C12 witness: a concurrent main() has received a failing report and then
\* a good one, and the verdict is false.
C12_Witness ==
    /\ parallel
    /\ Len(received) = 2
    /\ ~Succeeded(received[1])
    /\ Succeeded(received[2])
    /\ ~allgood

\* C13: a run() does nothing with its log file once it has closed it: no
\* line is printed to the closed file and no command runs with its output
\* directed to it.
C13_NoUseAfterClose ==
    \A n \in Dispatched :
        /\ BuilderOf(n).w = "file" => lost[n] = <<>>
        /\ file[n] = "closed" => ~Running(n)

\* C14: every stage prints its progress line to the log file before its
\* operation is executed: the journal of a log file has a line for every
\* stage that was started.
C14_LineForEveryStage ==
    \A n \in Dispatched :
        BuilderOf(n).w = "file" => Len(journal[n]) = Len(ops[n])

\* C15: when the run() of a builder starts, the builder has a log file (its
\* w is not nil) and the file is open.
C15_OpenSinkAtStart ==
    \A n \in Names :
        pc[n] = Validate => (BuilderOf(n).w # "nil" /\ file[n] = "open")

\* C16: once a remote command hangs, main() never announces a verdict and
\* never exits.  In sequential mode main() stays inside the run() that hangs
\* and no builder after it is ever started.  In concurrent mode every other
\* dispatched run() still goes to its end (all the stages, or its first
\* failure) and its report is received by main().
C16_HungOperation ==
    /\ []((\E h \in Names : IsHung(h)) =>
             /\ mainpc \notin {"exit", "panic"}
             /\ announced = "none"
             /\ exitStatus = -1)
    /\ [](\A k \in 1..Len(builders) :
             (~parallel /\ IsHung(builders[k].slave.Name)) =>
                /\ mainpc = "in run"
                /\ idx = k
                /\ \A j \in (k + 1)..Len(builders) :
                      /\ pc[builders[j].slave.Name] = "idle"
                      /\ ops[builders[j].slave.Name] = <<>>)
    /\ (parallel /\ \E h \in Names : IsHung(h)) ~>
          (\A n \in Dispatched :
              \/ IsHung(n)
              \/ /\ pc[n] = "done"
                 /\ \E i \in 1..Len(received) : received[i] = report[n]
                 /\ Failed(n) \/ Len(ops[n]) = Len(FullRun))

\* C16 witness: in a concurrent run the upload of the first builder hangs,
\* the second builder has run all its stages and main() has received its
\* report; main() is still in the receive loop.
C16_Witness ==
    /\ parallel /\ Len(builders) = 2
    /\ IsHung(builders[1].slave.Name)
    /\ pc[builders[1].slave.Name] = Upload
    /\ pc[builders[2].slave.Name] = "done"
    /\ Len(ops[builders[2].slave.Name]) = Len(FullRun)
    /\ Len(received) = 1
    /\ mainpc = "collect"
    /\ announced = "none"

\* C17: in main.go, where every builder gets a temporary directory name, no
\* two builders of a run have the same remote workspace path, and no two
\* builders write to the same log file.
C17_DistinctWorkspaces ==
    perRun =>
        \A j, k \in 1..Len(builders) :
            j # k =>
               /\ builders[j].slave.Path # builders[k].slave.Path
               /\ builders[j].slave.Name # builders[k].slave.Name

\* C18: "rm -rf" is run only as the last command of a run() all of whose
\* earlier commands succeeded, on the host and the directory its "mkdir -p"
\* was run on; a run() with a failed command other than the removal has
\* never run a removal.
C18_CleanupAfterSuccess ==
    \A n \in Names :
        /\ \A i \in 1..Len(ops[n]) :
              (ops[n][i].stage = Cleanup \/ ops[n][i].cmd.op = "rm -rf") =>
                 /\ ops[n][i].stage = Cleanup /\ ops[n][i].cmd.op = "rm -rf"
                 /\ i = Len(ops[n]) /\ i = Len(FullRun)
                 /\ \A j \in 1..(i - 1) :
                       /\ ops[n][j].res = "ok"
                       /\ ops[n][j].stage = FullRun[j]
                 /\ \E j \in 1..(i - 1) :
                       /\ ops[n][j].stage = Prepare
                       /\ ops[n][j].cmd.op = "mkdir -p"
                       /\ ops[n][j].cmd.host = ops[n][i].cmd.host
                       /\ ops[n][j].cmd.target = ops[n][i].cmd.target
        /\ (\E i \in 1..Len(ops[n]) :
               ops[n][i].res = "failed" /\ ops[n][i].stage # Cleanup) =>
              \A i \in 1..Len(ops[n]) : ops[n][i].stage # Cleanup

\* C18 witness: one run() has removed its workspace after five successful
\* commands while another run() of the same program has returned after a
\* failed retrieval without a removal.
C18_Witness ==
    \E n, m \in Names :
        /\ Len(ops[n]) = 6 /\ ops[n][6].stage = Cleanup /\ ops[n][6].res = "ok"
        /\ Terminal(m) /\ Len(ops[m]) = 5
        /\ ops[m][5].stage = Retrieve /\ ops[m][5].res = "failed"

\* C19: in every run(), the script the build command runs is the file the
\* upload wrote, the workspace path joined with "build.sh", and the retrieval
\* reads the directory "output" of that same workspace path.
C19_OnePathForScript ==
    \A n \in Dispatched :
        \A i \in 1..Len(ops[n]) :
            /\ ops[n][i].stage = Execute =>
                  /\ ops[n][i].cmd.target = RemoteCommandFileName(BuilderOf(n).slave)
                  /\ \E j \in 1..(i - 1) :
                        /\ ops[n][j].stage = Upload
                        /\ ops[n][j].cmd.target = ops[n][i].cmd.target
            /\ ops[n][i].stage = Retrieve =>
                  ops[n][i].cmd.target = Join(BuilderOf(n).slave.Path, "output")

\* C20: while main() is in the loop over the slaves, and after a panic in
\* it, no run() has started; a run() has started only when every slave has
\* been probed and main() has left that loop.
C20_DiscoveryBeforeStages ==
    /\ mainpc \in {"discover", "panic"} =>
          \A n \in Names : pc[n] = "idle" /\ ops[n] = <<>> /\ journal[n] = <<>>
    /\ (\E n \in Names : pc[n] # "idle") =>
          /\ \A m \in Names : probe[m] # "unknown"
          /\ \A m \in Names : probe[m] = "alive" => m \in Dispatched
    /\ exitStatus = 2 => mainpc = "panic"

\* C20 witness: main() has made a builder for the first slave and panicked
\* on the setup for the second; nothing was run.
C20_Witness ==
    /\ mainpc = "panic"
    /\ Len(builders) = 1
    /\ probe[2] = "alive"
    /\ \A n \in Names : pc[n] = "idle"

====
